---- MODULE Spec2Model ----
(***************************************************************************)
(* Work-assignment engine of the annotator service: the source_sentences   *)
(* and translations tables (database.py), the claim / release / complete   *)
(* / import operations on them (db_utils.py) and the request handlers that *)
(* call them (main.py).  Every request runs on its own SQLite connection;  *)
(* the model interleaves requests at the granularity of committed          *)
(* transactions, which is what concurrent server processes sharing the     *)
(* database file can observe.                                              *)
(***************************************************************************)
EXTENDS Integers, Sequences, FiniteSets, TLC

VARIABLES
    source_sentences,   \* table source_sentences: a set of rows
    translations,       \* table translations: rows in AUTOINCREMENT order
    lock,               \* holder of SQLite's write lock ("" when free)
    pc,                 \* where each request handler stands
    local,              \* the handler's arguments and local variables
    resp,               \* the response most recently sent, and to whom
    calls               \* ConcurrentClaims only: what each caller's call returned

vars == <<source_sentences, translations, lock, pc, local, resp, calls>>

----------------------------------------------------------------------------
\* Bounds of the model.

\* Largest number of items one language may hold.
MaxItems == 2

\* Largest number of rows the translations table may hold.
MaxLedger == 2

\* Largest number of items in the group that concurrent callers claim from.
MaxClaimItems == 3

\* Number of items in the group whose claims are checked for their order.
MaxOrderItems == 10

----------------------------------------------------------------------------
\* The callers.

SUPPORTED_LANG_CODES == {"mizo", "khasi"}

\* Annotator accounts and the language stored with each.
Workers == {"w1", "w2", "w3"}

UserLanguage(w) == IF w = "w3" THEN "khasi" ELSE "mizo"

\* Admin sessions uploading source files.
Admins == {"admin1", "admin2"}

\* Who is active in Spec: two annotators of one language and one admin
\* uploading for that language.
Team == {"w1", "w2"}

TeamAdmins == {"admin1"}

TeamLanguages == {"mizo"}

Procs == Workers \cup Admins

----------------------------------------------------------------------------
\* Text: a string is a sequence of characters.

IsSpace(c) == c = " "

RECURSIVE LStrip(_)
LStrip(s) == IF s # <<>> /\ IsSpace(Head(s)) THEN LStrip(Tail(s)) ELSE s

RECURSIVE RStrip(_)
RStrip(s) ==
    IF s # <<>> /\ IsSpace(s[Len(s)])
    THEN RStrip(SubSeq(s, 1, Len(s) - 1))
    ELSE s

\* str.strip()
Strip(s) == RStrip(LStrip(s))

\* str(n) for n >= 0: the decimal digits of n.
RECURSIVE Str(_)
Str(n) == IF n < 10 THEN <<n>> ELSE Str(n \div 10) \o <<n % 10>>

\* CAST(sentence_id AS INTEGER) on a string of digits.
RECURSIVE CastInt(_)
CastInt(s) ==
    IF s = <<>> THEN 0 ELSE 10 * CastInt(SubSeq(s, 1, Len(s) - 1)) + s[Len(s)]

----------------------------------------------------------------------------
\* The tables.

\* A row of source_sentences as import_source_sentences inserts it.
NewSentence(lang, id, text) ==
    [language |-> lang, sentence_id |-> Str(id), text |-> text,
     status |-> "unassigned", assigned_to |-> ""]

\* SELECT * FROM source_sentences WHERE language = ?
RowsOf(lang) == {r \in source_sentences : r.language = lang}

\* SELECT * ... WHERE language = ? AND sentence_id = ?
RowAt(lang, sid) == {r \in RowsOf(lang) : r.sentence_id = sid}

\* SELECT MAX(CAST(sentence_id AS INTEGER)) ..., 0 when there is no row.
MaxId(lang) ==
    IF RowsOf(lang) = {} THEN 0
    ELSE CHOOSE m \in {CastInt(r.sentence_id) : r \in RowsOf(lang)} :
            \A r \in RowsOf(lang) : CastInt(r.sentence_id) <= m

\* Faulty variant of ExistingTexts: the texts of the unassigned rows only.
ExistingTextsUnassigned(lang) ==
    {r.text : r \in {q \in RowsOf(lang) : q.status = "unassigned"}}

\* SELECT text FROM source_sentences WHERE language = ?
ExistingTexts(lang) == {r.text : r \in RowsOf(lang)}

\* UPDATE source_sentences SET <fields of upd> WHERE language = ? AND sentence_id = ?
UpdateRow(lang, sid, upd) ==
    {IF r.language = lang /\ r.sentence_id = sid
     THEN [f \in DOMAIN r |-> IF f \in DOMAIN upd THEN upd[f] ELSE r[f]]
     ELSE r : r \in source_sentences}

\* An implicit write transaction (an INSERT or UPDATE followed by commit())
\* can start: no other connection holds the write lock.
WriteLockFree == lock = ""

Idle == [op |-> "none"]

\* The response r sent to caller p.
Reply(p, r) == [to |-> p, body |-> r]

\* Faulty variant of BeginImmediate: the transaction is never opened, so each
\* statement of the call commits on its own.
BeginNothing(p) == lock' = lock

\* conn.execute("BEGIN IMMEDIATE"): take the write lock, waiting while another
\* connection holds it.
BeginImmediate(p) == lock = "" /\ lock' = p

\* conn.commit(): whatever this connection locked is released.
Commit(p) == lock' = IF lock = p THEN "" ELSE lock

----------------------------------------------------------------------------
\* ClaimNext: pop_next_sentence_for_lang(lang, username).

\* 1. SELECT * ... WHERE language = ? AND status = 'assigned' AND assigned_to = ?
HeldRows(lang, username) ==
    {r \in RowsOf(lang) : r.status = "assigned" /\ r.assigned_to = username}

\* Faulty variant of FirstUnassigned: the filter is status != 'completed'.
FirstNotCompleted(lang) ==
    LET U == {r \in RowsOf(lang) : r.status # "completed"}
    IN  {r \in U : \A q \in U : CastInt(r.sentence_id) <= CastInt(q.sentence_id)}

\* s < t as SQLite compares TEXT values: character by character, a proper
\* prefix first.
RECURSIVE TextLess(_, _)
TextLess(s, t) ==
    IF t = <<>> THEN FALSE
    ELSE IF s = <<>> THEN TRUE
    ELSE IF Head(s) # Head(t) THEN Head(s) < Head(t)
    ELSE TextLess(Tail(s), Tail(t))

\* Faulty variant of FirstUnassigned: ORDER BY sentence_id ASC, the ids
\* compared as the strings they are stored as.
FirstUnassignedAsText(lang) ==
    LET U == {r \in RowsOf(lang) : r.status = "unassigned"}
    IN  {r \in U : \A q \in U : ~TextLess(q.sentence_id, r.sentence_id)}

\* 2. SELECT * ... WHERE language = ? AND status = 'unassigned'
\*    ORDER BY CAST(sentence_id AS INTEGER) ASC LIMIT 1
FirstUnassigned(lang) ==
    LET U == {r \in RowsOf(lang) : r.status = "unassigned"}
    IN  {r \in U : \A q \in U : CastInt(r.sentence_id) <= CastInt(q.sentence_id)}

\* Faulty variant of PopSelect: step 1, the look-up of the row the caller holds, is
\* missing.
PopSelectFresh(lang, username) ==
    IF FirstUnassigned(lang) # {}
    THEN {[found |-> TRUE, row |-> r] : r \in FirstUnassigned(lang)}
    ELSE {[found |-> FALSE]}

\* Faulty variant of PopSelect: the two look-ups run in the other order, the
\* row the caller holds being fetched only when no row is unassigned.
PopSelectUnassignedFirst(lang, username) ==
    IF FirstUnassigned(lang) # {}
    THEN {[found |-> TRUE, row |-> r] : r \in FirstUnassigned(lang)}
    ELSE IF HeldRows(lang, username) # {}
    THEN {[found |-> TRUE, row |-> r] : r \in HeldRows(lang, username)}
    ELSE {[found |-> FALSE]}

\* Faulty variant of PopSelect: when no row is unassigned, a row assigned to
\* another annotator is taken over as if it were unassigned.
PopSelectTakeover(lang, username) ==
    IF HeldRows(lang, username) # {}
    THEN {[found |-> TRUE, row |-> r] : r \in HeldRows(lang, username)}
    ELSE IF FirstUnassigned(lang) # {}
    THEN {[found |-> TRUE, row |-> r] : r \in FirstUnassigned(lang)}
    ELSE IF FirstNotCompleted(lang) # {}
    THEN {[found |-> TRUE,
           row |-> [r EXCEPT !.status = "unassigned", !.assigned_to = ""]] :
             r \in FirstNotCompleted(lang)}
    ELSE {[found |-> FALSE]}

\* What the two fetchone() calls can give: the row the caller holds, else
\* the first unassigned row, else nothing.
PopSelect(lang, username) ==
    IF HeldRows(lang, username) # {}
    THEN {[found |-> TRUE, row |-> r] : r \in HeldRows(lang, username)}
    ELSE IF FirstUnassigned(lang) # {}
    THEN {[found |-> TRUE, row |-> r] : r \in FirstUnassigned(lang)}
    ELSE {[found |-> FALSE]}

\* Faulty variant of NextResponse: None from pop_next_sentence_for_lang is
\* answered as a failure.
NextResponseOrError(sel, username) ==
    IF ~sel.found THEN [kind |-> "error", error |-> "No sentence found."]
    ELSE IF sel.row.status = "unassigned"
    THEN [kind |-> "translate",
          sentence |-> [sel.row EXCEPT !.status = "assigned",
                                       !.assigned_to = username]]
    ELSE [kind |-> "translate", sentence |-> sel.row]

\* The response of annotator_next for what pop_next_sentence_for_lang returned.
NextResponse(sel, username) ==
    IF ~sel.found THEN [kind |-> "no_more"]
    ELSE IF sel.row.status = "unassigned"
    THEN [kind |-> "translate",
          sentence |-> [sel.row EXCEPT !.status = "assigned",
                                       !.assigned_to = username]]
    ELSE [kind |-> "translate", sentence |-> sel.row]

\* BEGIN IMMEDIATE and the two SELECTs.
PopRead(w, lang) ==
    /\ pc[w] = "idle"
    /\ BeginImmediate(w)
    /\ \E sel \in PopSelect(lang, w) :
          local' = [local EXCEPT ![w] = [op |-> "pop", lang |-> lang, sel |-> sel]]
    /\ pc' = [pc EXCEPT ![w] = "pop_write"]
    /\ UNCHANGED <<source_sentences, translations, resp, calls>>

\* The UPDATE of the row found unassigned, the commit and the return.
PopWrite(w) ==
    /\ pc[w] = "pop_write"
    /\ LET sel == local[w].sel
           lang == local[w].lang
       IN  /\ source_sentences' =
                 IF sel.found /\ sel.row.status = "unassigned"
                 THEN UpdateRow(lang, sel.row.sentence_id,
                                [status |-> "assigned", assigned_to |-> w])
                 ELSE source_sentences
           /\ resp' = Reply(w, NextResponse(sel, w))
    /\ Commit(w)
    /\ pc' = [pc EXCEPT ![w] = "idle"]
    /\ local' = [local EXCEPT ![w] = Idle]
    /\ UNCHANGED translations

\* GET /annotator/next
annotator_next(w) == PopRead(w, UserLanguage(w))

----------------------------------------------------------------------------
\* Release and Complete: POST /annotator/submit.

\* Faulty variant of unassign_sentence: the UPDATE sets status alone.
unassign_status_only(lang, sentence_id) ==
    UpdateRow(lang, sentence_id, [status |-> "unassigned"])

\* Faulty variant of unassign_sentence: the WHERE clause names sentence_id
\* alone.
unassign_any_language(lang, sentence_id) ==
    {IF r.sentence_id = sentence_id
     THEN [r EXCEPT !.status = "unassigned", !.assigned_to = ""]
     ELSE r : r \in source_sentences}

\* unassign_sentence(lang, sentence_id): the table after its UPDATE.
unassign_sentence(lang, sentence_id) ==
    UpdateRow(lang, sentence_id, [status |-> "unassigned", assigned_to |-> ""])

\* Faulty variant of mark_sentence_completed: the UPDATE writes another word
\* than the one the queries filter on.
mark_sentence_complete(lang, sentence_id) ==
    UpdateRow(lang, sentence_id, [status |-> "complete"])

\* mark_sentence_completed(lang, sentence_id): the table after its UPDATE.
mark_sentence_completed(lang, sentence_id) ==
    UpdateRow(lang, sentence_id, [status |-> "completed"])

\* Faulty variant of append_translation: INSERT OR REPLACE on the key
\* (language, sentence_id), so an earlier row for the item is dropped.
append_translation_replace(sentence_id, source_text, translated_text, username, lang) ==
    Append(SelectSeq(translations,
                     LAMBDA t : t.language # lang \/ t.sentence_id # sentence_id),
           [language |-> lang, sentence_id |-> sentence_id,
            source_text |-> source_text, translated_text |-> translated_text,
            username |-> username])

\* append_translation(...): the table after its INSERT (submitted_at, the
\* wall-clock time of the call, is left out).
append_translation(sentence_id, source_text, translated_text, username, lang) ==
    Append(translations,
           [language |-> lang, sentence_id |-> sentence_id,
            source_text |-> source_text, translated_text |-> translated_text,
            username |-> username])

\* Form fields a client may post.  sentence_id is the hidden field of a page
\* the server rendered for an annotator of the language, now or earlier: the
\* id of some item of the language.
FormSentenceIds(lang) == {r.sentence_id : r \in RowsOf(lang)}

FormSourceTexts == {<<"a">>, <<"b">>}

FormTranslatedTexts == {<<" ">>, <<"x", " ">>}

FormActions == {"cancel", "submit", "next"}

\* The handler up to and including append_translation.
annotator_submit(w, sentence_id, source_text, translated_text, action) ==
    /\ pc[w] = "idle"
    /\ LET lang == UserLanguage(w)
           text == Strip(translated_text)
       IN  IF action = "cancel"
           THEN /\ WriteLockFree
                /\ source_sentences' = unassign_sentence(lang, sentence_id)
                /\ resp' = Reply(w, [kind |-> "redirect_dashboard"])
                /\ UNCHANGED <<translations, lock, pc, local, calls>>
           ELSE IF text = <<>>
           THEN /\ resp' = Reply(w, [kind |-> "error",
                                      error |-> "Translation cannot be empty."])
                /\ UNCHANGED <<source_sentences, translations, lock, pc, local, calls>>
           ELSE /\ WriteLockFree
                /\ Len(translations) < MaxLedger
                /\ translations' =
                      append_translation(sentence_id, source_text, text, w, lang)
                /\ pc' = [pc EXCEPT ![w] = "submit_mark"]
                /\ local' = [local EXCEPT ![w] =
                               [op |-> "submit", lang |-> lang,
                                sentence_id |-> sentence_id, action |-> action]]
                /\ UNCHANGED <<source_sentences, lock, resp, calls>>

\* The rest of the handler: mark_sentence_completed and the response.
annotator_submit_mark(w) ==
    /\ pc[w] = "submit_mark"
    /\ WriteLockFree
    /\ source_sentences' =
          mark_sentence_completed(local[w].lang, local[w].sentence_id)
    /\ resp' = Reply(w, IF local[w].action = "next"
                      THEN [kind |-> "redirect_next"]
                      ELSE [kind |-> "submitted"])
    /\ pc' = [pc EXCEPT ![w] = "idle"]
    /\ local' = [local EXCEPT ![w] = Idle]
    /\ UNCHANGED <<translations, lock, calls>>

----------------------------------------------------------------------------
\* Import: POST /admin/upload_source and import_source_sentences.

\* An uploaded file: whether it has no bytes at all, the cells of its first
\* line, and the cells of each following line.
File(empty, header, lines) == [empty |-> empty, header |-> header, lines |-> lines]

Uploads ==
    { File(TRUE, <<>>, <<>>),
      File(FALSE, <<>>, << <<<<"a">>>> >>),
      File(FALSE, <<"id", "label">>, << <<<<"a">>, <<"b">>>> >>),
      File(FALSE, <<"text">>, <<>>),
      File(FALSE, <<"text">>, << <<<<"a">>>> >>),
      File(FALSE, <<"id", "sentence">>, << <<<<"a">>, <<"b">>>> >>),
      File(FALSE, <<"text">>, << <<<<" ", "a">>>>, <<<<"a", " ">>>>, <<<<"b">>>> >>),
      File(FALSE, <<"text", "source">>,
           << <<<<" ">>, <<"a">>>>, <<>>, <<<<>>, <<"b">>>> >>) }

\* csv.DictReader: one dict per line that has cells, keyed by the header;
\* a column the line has no cell for is None.
None == <<>>

DictRow(header, line) ==
    [c \in {header[i] : i \in 1..Len(header)} |->
        LET i == CHOOSE j \in 1..Len(header) :
                    header[j] = c /\ \A k \in 1..Len(header) : header[k] = c => k <= j
        IN  IF i <= Len(line) THEN line[i] ELSE None]

RECURSIVE DictRows(_, _)
DictRows(header, lines) ==
    IF lines = <<>> THEN <<>>
    ELSE IF Head(lines) = <<>> THEN DictRows(header, Tail(lines))
    ELSE <<DictRow(header, Head(lines))>> \o DictRows(header, Tail(lines))

required_cols == <<"text", "sentence", "source">>

\* Faulty variant of ValidationError: the check for a recognized column is
\* missing.
ValidationErrorAnyColumn(file) ==
    IF file.empty THEN "The uploaded file is empty."
    ELSE IF file.header = <<>>
    THEN "The uploaded file is not a valid CSV or has no header."
    ELSE IF DictRows(file.header, file.lines) = <<>>
    THEN "The uploaded CSV file contains no data rows."
    ELSE ""

\* The ValueError the validation raises, "" when it raises none.
ValidationError(file) ==
    IF file.empty THEN "The uploaded file is empty."
    ELSE IF file.header = <<>>
    THEN "The uploaded file is not a valid CSV or has no header."
    ELSE IF \A i \in 1..Len(required_cols) :
                \A j \in 1..Len(file.header) : file.header[j] # required_cols[i]
    THEN "CSV must contain one of the following columns: text, sentence, source"
    ELSE IF DictRows(file.header, file.lines) = <<>>
    THEN "The uploaded CSV file contains no data rows."
    ELSE ""

\* row.get(col): None (falsy, like "") when the row has no such column.
Get(row, col) == IF col \in DOMAIN row THEN row[col] ELSE None

\* row.get("text") or row.get("sentence") or row.get("source") or ""
RowText(row) ==
    IF Get(row, "text") # <<>> THEN Get(row, "text")
    ELSE IF Get(row, "sentence") # <<>> THEN Get(row, "sentence")
    ELSE IF Get(row, "source") # <<>> THEN Get(row, "source")
    ELSE <<>>

\* Faulty variant of NewSentences: a text accepted from the file is not added
\* to existing_texts.
RECURSIVE NewSentencesStoredOnly(_, _, _, _)
NewSentencesStoredOnly(lang, rows, existing_texts, current_id) ==
    IF rows = <<>> THEN <<>>
    ELSE LET text == Strip(RowText(Head(rows)))
         IN  IF text # <<>> /\ text \notin existing_texts
             THEN <<NewSentence(lang, current_id + 1, text)>>
                  \o NewSentencesStoredOnly(lang, Tail(rows), existing_texts,
                                            current_id + 1)
             ELSE NewSentencesStoredOnly(lang, Tail(rows), existing_texts,
                                         current_id)

\* Faulty variant of NewSentences: current_id is advanced for every row of the
\* file, the skipped ones too.
RECURSIVE NewSentencesCountAll(_, _, _, _)
NewSentencesCountAll(lang, rows, existing_texts, current_id) ==
    IF rows = <<>> THEN <<>>
    ELSE LET text == Strip(RowText(Head(rows)))
         IN  IF text # <<>> /\ text \notin existing_texts
             THEN <<NewSentence(lang, current_id + 1, text)>>
                  \o NewSentencesCountAll(lang, Tail(rows),
                                          existing_texts \cup {text}, current_id + 1)
             ELSE NewSentencesCountAll(lang, Tail(rows), existing_texts,
                                       current_id + 1)

\* The loop over rows: new_sentences, in the order appended.
RECURSIVE NewSentences(_, _, _, _)
NewSentences(lang, rows, existing_texts, current_id) ==
    IF rows = <<>> THEN <<>>
    ELSE LET text == Strip(RowText(Head(rows)))
         IN  IF text # <<>> /\ text \notin existing_texts
             THEN <<NewSentence(lang, current_id + 1, text)>>
                  \o NewSentences(lang, Tail(rows), existing_texts \cup {text},
                                  current_id + 1)
             ELSE NewSentences(lang, Tail(rows), existing_texts, current_id)

Range(s) == {s[i] : i \in 1..Len(s)}

\* executemany(INSERT ...) raises IntegrityError: a new row's
\* (language, sentence_id) is already a primary key of the table.
IntegrityError(new_sentences) ==
    \E n \in Range(new_sentences) : RowAt(n.language, n.sentence_id) # {}

\* The most rows an import of rows can add: its distinct texts.
MaxAdded(rows) ==
    Cardinality({Strip(RowText(rows[i])) : i \in 1..Len(rows)} \ {<<>>})

\* Rows that imports in progress for lang may still insert.
RECURSIVE InFlight(_, _)
InFlight(lang, admins) ==
    IF admins = {} THEN 0
    ELSE LET a == CHOOSE x \in admins : TRUE
         IN  (IF local[a].op = "import" /\ local[a].lang = lang
              THEN MaxAdded(local[a].rows) ELSE 0)
             + InFlight(lang, admins \ {a})

\* The upload is validated and parsed, and existing_texts is read.
admin_upload_source_post(a, language, file) ==
    /\ pc[a] = "idle"
    /\ IF ValidationError(file) # ""
       THEN /\ resp' = Reply(a, [kind |-> "error", error |-> ValidationError(file)])
            /\ UNCHANGED <<pc, local>>
       ELSE LET rows == DictRows(file.header, file.lines)
            IN  /\ MaxId(language) + InFlight(language, Admins) + MaxAdded(rows)
                       <= MaxItems
                /\ pc' = [pc EXCEPT ![a] = "import_max"]
                /\ local' = [local EXCEPT ![a] =
                               [op |-> "import", lang |-> language, rows |-> rows,
                                existing_texts |-> ExistingTexts(language),
                                current_id |-> 0]]
                /\ UNCHANGED resp
    /\ UNCHANGED <<source_sentences, translations, lock, calls>>

\* SELECT MAX(CAST(sentence_id AS INTEGER)): current_id is read.
import_read_max(a) ==
    /\ pc[a] = "import_max"
    /\ local' = [local EXCEPT ![a].current_id = MaxId(local[a].lang)]
    /\ pc' = [pc EXCEPT ![a] = "import_insert"]
    /\ UNCHANGED <<source_sentences, translations, lock, resp, calls>>

\* Faulty variant of import_insert: the connection is in autocommit mode, so
\* each row of the batch is inserted and committed in a step of its own.
import_insert_rowwise(a) ==
    /\ pc[a] = "import_insert"
    /\ LET new_sentences ==
               NewSentences(local[a].lang, local[a].rows,
                            local[a].existing_texts, local[a].current_id)
       IN  IF new_sentences = <<>>
           THEN /\ resp' = Reply(a, [kind |-> "imported", added_count |-> 0])
                /\ pc' = [pc EXCEPT ![a] = "idle"]
                /\ local' = [local EXCEPT ![a] = Idle]
                /\ UNCHANGED source_sentences
           ELSE /\ WriteLockFree
                /\ IF IntegrityError(<<Head(new_sentences)>>)
                   THEN /\ resp' = Reply(a, [kind |-> "error", error |-> "IntegrityError"])
                        /\ pc' = [pc EXCEPT ![a] = "idle"]
                        /\ local' = [local EXCEPT ![a] = Idle]
                        /\ UNCHANGED source_sentences
                   ELSE /\ source_sentences' =
                             source_sentences \cup {Head(new_sentences)}
                        /\ local' = [local EXCEPT
                              ![a].existing_texts = @ \cup {Head(new_sentences).text},
                              ![a].current_id = @ + 1]
                        /\ UNCHANGED <<pc, resp>>
    /\ UNCHANGED <<translations, lock, calls>>

\* Faulty variant of import_insert: the rows of the language are replaced by
\* the new ones (DELETE ... WHERE language = ? before the INSERT).
import_insert_replace(a) ==
    /\ pc[a] = "import_insert"
    /\ LET new_sentences ==
               NewSentences(local[a].lang, local[a].rows,
                            local[a].existing_texts, local[a].current_id)
       IN  IF new_sentences = <<>>
           THEN /\ resp' = Reply(a, [kind |-> "imported", added_count |-> 0])
                /\ UNCHANGED source_sentences
           ELSE /\ WriteLockFree
                /\ source_sentences' =
                      (source_sentences \ RowsOf(local[a].lang))
                        \cup Range(new_sentences)
                /\ resp' = Reply(a, [kind |-> "imported",
                                          added_count |-> Len(new_sentences)])
    /\ pc' = [pc EXCEPT ![a] = "idle"]
    /\ local' = [local EXCEPT ![a] = Idle]
    /\ UNCHANGED <<translations, lock, calls>>

\* The loop, the executemany and the commit; an IntegrityError leaves the
\* transaction uncommitted and conn.close() discards it.
import_insert(a) ==
    /\ pc[a] = "import_insert"
    /\ LET new_sentences ==
               NewSentences(local[a].lang, local[a].rows,
                            local[a].existing_texts, local[a].current_id)
       IN  IF new_sentences = <<>>
           THEN /\ resp' = Reply(a, [kind |-> "imported", added_count |-> 0])
                /\ UNCHANGED source_sentences
           ELSE /\ WriteLockFree
                /\ IF IntegrityError(new_sentences)
                   THEN /\ resp' = Reply(a, [kind |-> "error", error |-> "IntegrityError"])
                        /\ UNCHANGED source_sentences
                   ELSE /\ source_sentences' =
                             source_sentences \cup Range(new_sentences)
                        /\ resp' = Reply(a, [kind |-> "imported",
                                                  added_count |-> Len(new_sentences)])
    /\ pc' = [pc EXCEPT ![a] = "idle"]
    /\ local' = [local EXCEPT ![a] = Idle]
    /\ UNCHANGED <<translations, lock, calls>>

----------------------------------------------------------------------------
\* Stats: GET /admin/dashboard and the queries it runs, each on a connection
\* of its own.

\* SUM(f) over the rows S.
RECURSIVE SUM(_, _)
SUM(f, S) ==
    IF S = {} THEN 0
    ELSE LET r == CHOOSE x \in S : TRUE
         IN  f[r] + SUM(f, S \ {r})

\* SELECT COUNT(*) FROM translations WHERE username = ?, and the reward.
get_annotator_stats(username) ==
    LET count == Cardinality({i \in 1..Len(translations) :
                                 translations[i].username = username})
    IN  [count |-> count, reward |-> count * 2]

\* SELECT COUNT(*) ... WHERE language = ? AND status != 'completed'
count_remaining_sentences(lang) ==
    Cardinality({r \in RowsOf(lang) : r.status # "completed"})

\* Faulty variant of get_language_stats: remaining is the SUM over
\* status = 'unassigned'.
get_language_stats_unassigned ==
    [lang \in {r.language : r \in source_sentences} |->
        [total |-> Cardinality(RowsOf(lang)),
         completed |-> SUM([r \in RowsOf(lang) |->
                              IF r.status = "completed" THEN 1 ELSE 0],
                           RowsOf(lang)),
         remaining |-> SUM([r \in RowsOf(lang) |->
                              IF r.status = "unassigned" THEN 1 ELSE 0],
                           RowsOf(lang))]]

\* SELECT language, COUNT(*), SUM(CASE ...), SUM(CASE ...) ... GROUP BY
\* language: one entry per language that has rows.
get_language_stats ==
    [lang \in {r.language : r \in source_sentences} |->
        [total |-> Cardinality(RowsOf(lang)),
         completed |-> SUM([r \in RowsOf(lang) |->
                              IF r.status = "completed" THEN 1 ELSE 0],
                           RowsOf(lang)),
         remaining |-> SUM([r \in RowsOf(lang) |->
                              IF r.status # "completed" THEN 1 ELSE 0],
                           RowsOf(lang))]]

\* read_users(): the approved annotators, in the order stored.
approved == <<"w1", "w2", "w3">>

\* The handler up to the loop over the approved annotators.
admin_dashboard(a) ==
    /\ pc[a] = "idle"
    /\ pc' = [pc EXCEPT ![a] = "dashboard_count"]
    /\ local' = [local EXCEPT ![a] =
                   [op |-> "dashboard", todo |-> approved, total_done |-> 0,
                    stats |-> <<>>]]
    /\ UNCHANGED <<source_sentences, translations, lock, resp, calls>>

\* get_annotator_stats(u["username"]) for the annotator the loop is at.
dashboard_annotator_stats(a) ==
    /\ pc[a] = "dashboard_count"
    /\ local' = [local EXCEPT ![a].total_done =
                   get_annotator_stats(Head(local[a].todo)).count]
    /\ pc' = [pc EXCEPT ![a] = "dashboard_remaining"]
    /\ UNCHANGED <<source_sentences, translations, lock, resp, calls>>

\* count_remaining_sentences(lang) and the entry of stats for the annotator.
dashboard_count_remaining(a) ==
    /\ pc[a] = "dashboard_remaining"
    /\ LET u == Head(local[a].todo)
       IN  local' = [local EXCEPT
               ![a].stats = Append(@, [username |-> u,
                                       language |-> UserLanguage(u),
                                       completed |-> local[a].total_done,
                                       remaining |->
                                         count_remaining_sentences(UserLanguage(u))]),
               ![a].todo = Tail(@)]
    /\ pc' = [pc EXCEPT ![a] = IF Len(local[a].todo) > 1
                               THEN "dashboard_count" ELSE "dashboard_languages"]
    /\ UNCHANGED <<source_sentences, translations, lock, resp, calls>>

\* get_language_stats() and the response.
dashboard_language_stats(a) ==
    /\ pc[a] = "dashboard_languages"
    /\ resp' = Reply(a, [kind |-> "dashboard", stats |-> local[a].stats,
                         language_stats |-> get_language_stats])
    /\ pc' = [pc EXCEPT ![a] = "idle"]
    /\ local' = [local EXCEPT ![a] = Idle]
    /\ UNCHANGED <<source_sentences, translations, lock, calls>>

----------------------------------------------------------------------------
\* The system: any request of any caller, in any interleaving.

Quiet ==
    /\ translations = <<>>
    /\ lock = ""
    /\ pc = [p \in Procs |-> "idle"]
    /\ local = [p \in Procs |-> Idle]
    /\ resp = Reply("", [kind |-> "none"])
    /\ calls = [w \in Workers |-> [kind |-> "pending"]]

Init ==
    /\ source_sentences = {}
    /\ Quiet

Next ==
    \/ \E w \in Team : annotator_next(w)
    \/ \E w \in Workers : PopWrite(w) /\ UNCHANGED calls
    \/ \E w \in Team : \E sentence_id \in FormSentenceIds(UserLanguage(w)),
          source_text \in FormSourceTexts,
          translated_text \in FormTranslatedTexts, action \in FormActions :
            annotator_submit(w, sentence_id, source_text, translated_text, action)
    \/ \E w \in Workers : annotator_submit_mark(w)
    \/ \E a \in TeamAdmins, language \in TeamLanguages, file \in Uploads :
            admin_upload_source_post(a, language, file)
    \/ \E a \in Admins : import_read_max(a)
    \/ \E a \in Admins : import_insert(a)

Spec == Init /\ [][Next]_vars

----------------------------------------------------------------------------
\* ConcurrentClaims: every worker calls pop_next_sentence_for_lang once for
\* the same language, concurrently, and nothing else runs.  The group starts
\* with items 1..n, as imports left them, some of them completed earlier
\* (a completed row keeps the assigned_to it had: a worker's name, or "").

ClaimLanguage == "mizo"

\* The text of item i: i characters, so that no two items share a text.
SampleText(i) == [j \in 1..i |-> "a"]

ClaimsInit ==
    /\ \E n \in 0..MaxClaimItems : \E done \in SUBSET (1..n) :
       \E owner \in {"", "w1"} :
          source_sentences =
              {IF i \in done
               THEN [NewSentence(ClaimLanguage, i, SampleText(i))
                       EXCEPT !.status = "completed", !.assigned_to = owner]
               ELSE NewSentence(ClaimLanguage, i, SampleText(i)) : i \in 1..n}
    /\ Quiet

\* What the call returned: an item, or none.
CallResult(r) ==
    IF r.kind = "translate"
    THEN [kind |-> "item", sentence_id |-> r.sentence.sentence_id]
    ELSE [kind |-> "none"]

CallRead(w) ==
    /\ calls[w].kind = "pending"
    /\ PopRead(w, ClaimLanguage)

CallWrite(w) ==
    /\ PopWrite(w)
    /\ calls' = [calls EXCEPT ![w] = CallResult(resp'.body)]

ClaimsNext ==
    \/ \E w \in Workers : CallRead(w)
    \/ \E w \in Workers : CallWrite(w)

ConcurrentClaims == ClaimsInit /\ [][ClaimsNext]_vars

----------------------------------------------------------------------------
\* OrderedClaims: the annotators of one language call GET /annotator/next,
\* any number of times, on a group that imports have filled with items
\* 1..MaxOrderItems, any of them completed earlier.

OrderInit ==
    /\ \E done \in SUBSET (1..MaxOrderItems) :
          source_sentences =
              {IF i \in done
               THEN [NewSentence(ClaimLanguage, i, SampleText(i))
                       EXCEPT !.status = "completed"]
               ELSE NewSentence(ClaimLanguage, i, SampleText(i)) :
                   i \in 1..MaxOrderItems}
    /\ Quiet

OrderNext ==
    \/ \E w \in Team : annotator_next(w)
    \/ \E w \in Team : PopWrite(w) /\ UNCHANGED calls

OrderedClaims == OrderInit /\ [][OrderNext]_vars

----------------------------------------------------------------------------
\* Dashboards: an admin loads the dashboard, any number of times, while the
\* annotators of one language claim from a group of MaxOrderItems items, any
\* of them completed earlier.

DashboardsNext ==
    \/ \E w \in Team : annotator_next(w)
    \/ \E w \in Team : PopWrite(w) /\ UNCHANGED calls
    \/ \E a \in TeamAdmins : admin_dashboard(a)
    \/ \E a \in TeamAdmins : dashboard_annotator_stats(a)
    \/ \E a \in TeamAdmins : dashboard_count_remaining(a)
    \/ \E a \in TeamAdmins : dashboard_language_stats(a)

Dashboards == OrderInit /\ [][DashboardsNext]_vars

----------------------------------------------------------------------------
\* TwoGroups: an annotator of each language claims, releases and completes,
\* while an admin uploads source files for either language.

GroupWorkers == {"w1", "w3"}

\* The files uploaded: one with a text column, one with a sentence column.
GroupUploads ==
    { File(FALSE, <<"text">>, << <<<<"a">>>> >>),
      File(FALSE, <<"id", "sentence">>, << <<<<"a">>, <<"b">>>> >>) }

TwoGroupsNext ==
    \/ \E w \in GroupWorkers : annotator_next(w)
    \/ \E w \in GroupWorkers : PopWrite(w) /\ UNCHANGED calls
    \/ \E w \in GroupWorkers :
          \E sentence_id \in FormSentenceIds(UserLanguage(w)),
             action \in FormActions :
            annotator_submit(w, sentence_id, <<"a">>, <<"x", " ">>, action)
    \/ \E w \in GroupWorkers : annotator_submit_mark(w)
    \/ \E a \in TeamAdmins, language \in SUPPORTED_LANG_CODES,
          file \in GroupUploads :
            admin_upload_source_post(a, language, file)
    \/ \E a \in TeamAdmins : import_read_max(a)
    \/ \E a \in TeamAdmins : import_insert(a)

TwoGroups == Init /\ [][TwoGroupsNext]_vars

----------------------------------------------------------------------------
\* Progress: the annotators of one language work through a group that
\* imports have filled.  Each posts the form of the page it was served: a
\* Complete or a Release of the item it holds.  One of them, the completer,
\* never releases.

Completer == "w1"

ProgressInit ==
    /\ \E n \in 0..MaxItems :
          source_sentences =
              {NewSentence(ClaimLanguage, i, SampleText(i)) : i \in 1..n}
    /\ Quiet

\* w posts the translation of the item it holds.
CompleteHeld(w) ==
    \E r \in HeldRows(UserLanguage(w), w) :
        annotator_submit(w, r.sentence_id, r.text, <<"x", " ">>, "submit")

\* w posts the cancel of the item it holds.
ReleaseHeld(w) ==
    \E r \in HeldRows(UserLanguage(w), w) :
        annotator_submit(w, r.sentence_id, r.text, <<" ">>, "cancel")

ProgressNext ==
    \/ \E w \in Team : annotator_next(w)
    \/ \E w \in Team : PopWrite(w) /\ UNCHANGED calls
    \/ \E w \in Team : CompleteHeld(w)
    \/ \E w \in Team \ {Completer} : ReleaseHeld(w)
    \/ \E w \in Team : annotator_submit_mark(w)

\* A request that waits for the write lock gets it, so every request is
\* served to its end; an annotator that holds an item goes on to complete or
\* release it; the completer completes what it holds and keeps calling
\* ClaimNext.
ProgressFairness ==
    /\ \A w \in Team : WF_vars(PopWrite(w) /\ UNCHANGED calls)
    /\ \A w \in Team : SF_vars(annotator_submit_mark(w))
    /\ \A w \in Team \ {Completer} : SF_vars(CompleteHeld(w) \/ ReleaseHeld(w))
    /\ SF_vars(CompleteHeld(Completer))
    /\ SF_vars(annotator_next(Completer))

Progress == ProgressInit /\ [][ProgressNext]_vars /\ ProgressFairness

----------------------------------------------------------------------------
\* ConcurrentImports: two admin sessions, served by two server processes,
\* upload source files for the same language, and nothing else runs.

ImportsNext ==
    \/ \E a \in Admins, language \in TeamLanguages, file \in Uploads :
            admin_upload_source_post(a, language, file)
    \/ \E a \in Admins : import_read_max(a)
    \/ \E a \in Admins : import_insert(a)

ConcurrentImports == Init /\ [][ImportsNext]_vars

----------------------------------------------------------------------------
\* Properties.

\* The step in which worker w's ClaimNext writes its claim: the UPDATE of the
\* row it found unassigned, and the commit.
ClaimTakes(w) ==
    /\ pc[w] = "pop_write"
    /\ pc'[w] = "idle"
    /\ local[w].sel.found
    /\ local[w].sel.row.status = "unassigned"

\* C1: under any interleaving of requests, a ClaimNext that succeeds in
\* claiming an item takes one that is unassigned and held by nobody at the
\* instant of its write, and the item is the caller's alone afterwards: no
\* call claims an item another call has claimed and not given back.
C1_NoDoubleClaim ==
    [][\A w \in Workers :
          ClaimTakes(w) =>
            LET sid == local[w].sel.row.sentence_id
                lang == local[w].lang
            IN  /\ \A r \in RowAt(lang, sid) :
                      r.status = "unassigned" /\ r.assigned_to = ""
                /\ \A r \in source_sentences' :
                      (r.language = lang /\ r.sentence_id = sid)
                        => r.status = "assigned" /\ r.assigned_to = w]_vars

\* C1 witness: two workers of one group each hold an item they claimed.
C1_Witness ==
    \E r1, r2 \in source_sentences :
        /\ r1.language = r2.language
        /\ r1.sentence_id # r2.sentence_id
        /\ r1.status = "assigned" /\ r1.assigned_to = "w1"
        /\ r2.status = "assigned" /\ r2.assigned_to = "w2"

\* The callers whose call returned an item.
Succeeded == {w \in Workers : calls[w].kind = "item"}

\* K: the items of the group that were unassigned when the calls began (in
\* ConcurrentClaims no item is completed or added after Init).
K == Cardinality({r \in RowsOf(ClaimLanguage) : r.status # "completed"})

Min(a, b) == IF a <= b THEN a ELSE b

\* C2: once the N concurrent calls of N distinct workers have all returned,
\* exactly min(N, K) of them returned an item, no two of them the same item,
\* each item returned is assigned to its caller, and the other calls
\* returned none.
C2_MinNK ==
    (\A w \in Workers : calls[w].kind # "pending") =>
        /\ Cardinality(Succeeded) = Min(Cardinality(Workers), K)
        /\ \A w1, w2 \in Succeeded :
              w1 # w2 => calls[w1].sentence_id # calls[w2].sentence_id
        /\ \A w \in Succeeded :
              \E r \in RowAt(ClaimLanguage, calls[w].sentence_id) :
                  r.status = "assigned" /\ r.assigned_to = w
        /\ \A w \in Workers \ Succeeded : calls[w].kind = "none"

\* C2 witness: all calls have returned, fewer items than callers were
\* unassigned, and some call returned an item while another returned none.
C2_Witness ==
    /\ \A w \in Workers : calls[w].kind # "pending"
    /\ K < Cardinality(Workers)
    /\ \E w1, w2 \in Workers : calls[w1].kind = "item" /\ calls[w2].kind = "none"

\* C3: for every item, status = assigned if and only if assigned_to is
\* non-empty.
C3_AssignedIffOwner ==
    \A r \in source_sentences : (r.status = "assigned") <=> (r.assigned_to # "")

\* The row of the next state with the key of row r.
Successor(r) ==
    {q \in source_sentences' :
        q.language = r.language /\ q.sentence_id = r.sentence_id}

\* C4: completed is terminal: no step changes the status of a completed item.
C4_CompletedIsTerminal ==
    [][\A r \in source_sentences :
          r.status = "completed" =>
              \A q \in Successor(r) : q.status = "completed"]_vars

\* The step in which annotator_submit accepts worker w's Complete: it appends
\* to the ledger and goes on to mark the item completed.
CompleteAccepted(w) == pc[w] = "idle" /\ pc'[w] = "submit_mark"

\* C5: a Complete for an item that is not assigned to the calling worker is
\* answered with an error and changes neither the items nor the ledger.
C5_CompleteRejectsNonOwner ==
    [][\A w \in Workers :
          (/\ CompleteAccepted(w)
           /\ ~\E r \in RowAt(local'[w].lang, local'[w].sentence_id) :
                  r.status = "assigned" /\ r.assigned_to = w)
          => /\ translations' = translations
             /\ source_sentences' = source_sentences
             /\ resp'.to = w /\ resp'.body.kind = "error"]_vars

\* The ledger entries of item (lang, sid).
EntriesOf(lang, sid) ==
    {i \in 1..Len(translations) :
        translations[i].language = lang /\ translations[i].sentence_id = sid}

\* C6: Complete is all-or-nothing: in every state an item has a ledger entry
\* if and only if its status is completed.
C6_LedgerWithStatus ==
    \A r \in source_sentences :
        (EntriesOf(r.language, r.sentence_id) # {}) <=> (r.status = "completed")

\* C7: a ledger entry is created once per completion: no (group, item_id) has
\* two ledger entries.
C7_OneEntryPerItem ==
    \A i, j \in 1..Len(translations) :
        (/\ translations[i].language = translations[j].language
         /\ translations[i].sentence_id = translations[j].sentence_id) => i = j

\* C8: whenever an item becomes completed, it was assigned just before, to
\* the worker whose Complete marks it.
C8_CompletedFromAssigned ==
    [][\A r \in source_sentences :
          (r.status # "completed" /\ \E q \in Successor(r) : q.status = "completed")
          => /\ r.status = "assigned"
             /\ \E w \in Workers :
                  /\ pc[w] = "submit_mark" /\ pc'[w] = "idle"
                  /\ r.assigned_to = w]_vars

\* C9: the source text of every ledger entry is the text stored in the item
\* row of its (group, item_id).
C9_LedgerTextIsStored ==
    \A i \in 1..Len(translations) :
        \A r \in RowAt(translations[i].language, translations[i].sentence_id) :
            translations[i].source_text = r.text

\* The items of group lang that are assigned to worker w.
OpenItems(lang, w) ==
    {r \in source_sentences :
        r.language = lang /\ r.status = "assigned" /\ r.assigned_to = w}

\* C10: in every state, for every group and worker, at most one item of the
\* group is assigned to the worker.
C10_OneOpenItem ==
    \A lang \in SUPPORTED_LANG_CODES : \A w \in Workers :
        Cardinality(OpenItems(lang, w)) <= 1

\* C10 witness: w1 holds item 2 while item 1 of its group is unassigned, and
\* the last response is the one ClaimNext gave w1: w1 called ClaimNext while
\* holding an item and with another item on offer.
C10_Witness ==
    /\ resp.to = "w1" /\ resp.body.kind = "translate"
    /\ \E r \in OpenItems("mizo", "w1") : r.sentence_id = Str(2)
    /\ \E r \in RowAt("mizo", Str(1)) : r.status = "unassigned"

\* The step in which worker w's ClaimNext commits and returns.
ClaimReturns(w) == pc[w] = "pop_write" /\ pc'[w] = "idle"

\* C11: a ClaimNext of a worker for a group in which the worker still holds
\* an item (the item an earlier ClaimNext gave it, neither released nor
\* completed since) returns that very item, and changes no item, whatever
\* other workers claimed and whatever was imported in between.
C11_IdempotentClaim ==
    [][\A w \in Workers :
          (ClaimReturns(w) /\ OpenItems(local[w].lang, w) # {})
          => /\ resp'.to = w
             /\ resp'.body.kind = "translate"
             /\ resp'.body.sentence \in OpenItems(local[w].lang, w)
             /\ source_sentences' = source_sentences]_vars

\* C11 witness: w1's ClaimNext has found the item w1 already holds, while
\* another item of the group is on offer.
C11_Witness ==
    /\ pc["w1"] = "pop_write"
    /\ local["w1"].sel.found
    /\ local["w1"].sel.row.status = "assigned"
    /\ \E r \in RowsOf("mizo") : r.status = "unassigned"

\* The unassigned items of group lang.
Unassigned(lang) == {r \in RowsOf(lang) : r.status = "unassigned"}

\* C12: a ClaimNext of a worker that holds no item, in a group that has
\* unassigned items, takes the unassigned item whose id is smallest as an
\* integer: it sets that item, and no other, to assigned with assigned_to =
\* the worker, and returns it.
C12_SmallestIdFirst ==
    [][\A w \in Workers :
          (/\ ClaimReturns(w)
           /\ OpenItems(local[w].lang, w) = {}
           /\ Unassigned(local[w].lang) # {})
          => \E r \in Unassigned(local[w].lang) :
                /\ \A q \in Unassigned(local[w].lang) :
                      CastInt(r.sentence_id) <= CastInt(q.sentence_id)
                /\ source_sentences' =
                      (source_sentences \ {r})
                        \cup {[r EXCEPT !.status = "assigned", !.assigned_to = w]}
                /\ resp'.to = w
                /\ resp'.body.kind = "translate"
                /\ resp'.body.sentence =
                      [r EXCEPT !.status = "assigned", !.assigned_to = w]]_vars

\* C12 witness: w1 was given an item with a one-digit id above 1 while item
\* 10, whose id sorts first as a string, is unassigned.
C12_Witness ==
    /\ resp.to = "w1" /\ resp.body.kind = "translate"
    /\ pc["w1"] = "idle"
    /\ \E r \in OpenItems(ClaimLanguage, "w1") :
          /\ r = resp.body.sentence
          /\ CastInt(r.sentence_id) \in 2..9
    /\ \E r \in RowAt(ClaimLanguage, Str(10)) : r.status = "unassigned"

\* The step is worker w's POST /annotator/submit with action = cancel for
\* item sentence_id: a Release.
Release(w, sentence_id) ==
    \E source_text \in FormSourceTexts, translated_text \in FormTranslatedTexts :
        annotator_submit(w, sentence_id, source_text, translated_text, "cancel")

\* C13: a Release of a completed item is answered with an error and leaves
\* the item completed.
C13_ReleaseCompletedRejected ==
    [][\A w \in Workers : \A r \in RowsOf(UserLanguage(w)) :
          (r.status = "completed" /\ Release(w, r.sentence_id))
          => /\ resp'.to = w
             /\ resp'.body.kind = "error"
             /\ r \in source_sentences']_vars

\* C14: a Release of an assigned item sets that item, and no other, to
\* unassigned with empty assigned_to; and any worker that holds nothing and
\* calls ClaimNext while the item is the unassigned item of smallest id is
\* given it.
C14_ReleaseReversible ==
    [][/\ \A w \in Workers : \A r \in RowsOf(UserLanguage(w)) :
            (r.status = "assigned" /\ Release(w, r.sentence_id))
            => source_sentences' =
                  (source_sentences \ {r})
                    \cup {[r EXCEPT !.status = "unassigned", !.assigned_to = ""]}
       /\ \A w \in Workers :
            (ClaimReturns(w) /\ OpenItems(local[w].lang, w) = {})
            => \A r \in Unassigned(local[w].lang) :
                  (\A q \in Unassigned(local[w].lang) :
                      CastInt(r.sentence_id) <= CastInt(q.sentence_id))
                  => /\ [r EXCEPT !.status = "assigned", !.assigned_to = w]
                          \in source_sentences'
                     /\ resp'.body.kind = "translate"
                     /\ resp'.body.sentence.sentence_id = r.sentence_id]_vars

\* C14 witness: nothing was ever completed, w2 holds item 2, which it can
\* only have claimed while item 1 was assigned, and item 1 is unassigned with
\* empty assigned_to: it was released.  w1, holding nothing, has called
\* ClaimNext and found item 1.
C14_Witness ==
    /\ translations = <<>>
    /\ \E r \in OpenItems("mizo", "w2") : r.sentence_id = Str(2)
    /\ \E r \in RowAt("mizo", Str(1)) :
          r.status = "unassigned" /\ r.assigned_to = ""
    /\ pc["w1"] = "pop_write"
    /\ local["w1"].sel.found
    /\ local["w1"].sel.row.sentence_id = Str(1)
    /\ local["w1"].sel.row.status = "unassigned"

\* C15: while imports do not overlap, no two items of a group have the same
\* text: an import skips every row whose trimmed text is stored already or
\* was accepted earlier in the same file.
C15_NoDuplicateText ==
    \A r1, r2 \in source_sentences :
        (r1.language = r2.language /\ r1.text = r2.text) => r1 = r2

\* C15 witness: an import has just added two items, "a" and "b"; the only
\* file that adds two has the lines " a", "a " and "b", so its second line
\* was skipped as a duplicate of the first once trimmed.
C15_Witness ==
    /\ resp.body.kind = "imported"
    /\ resp.body.added_count = 2
    /\ {r.text : r \in RowsOf("mizo")} = {<<"a">>, <<"b">>}
    /\ Cardinality(RowsOf("mizo")) = 2

\* The step in which admin a's import finishes: the loop, the insert, the
\* return.
ImportReturns(a) == pc[a] = "import_insert" /\ pc'[a] = "idle"

\* The texts an import of rows offers: trimmed, the blank ones left out.
FileTexts(rows) == {Strip(RowText(rows[i])) : i \in 1..Len(rows)} \ {<<>>}

\* The texts group lang stores.
StoredTexts(lang) == {r.text : r \in {q \in source_sentences : q.language = lang}}

\* C16: uploading again data that was imported returns 0 as a normal result
\* and changes no item, whatever was claimed, released or completed in
\* between.  In steps: an import that returns normally leaves every text of
\* its file stored; no step removes a stored text; and an import of a file
\* all of whose texts are stored returns 0 and leaves the items as they are.
C16_ReimportAddsNothing ==
    [][/\ \A a \in Admins :
            (ImportReturns(a) /\ resp'.body.kind = "imported")
            => FileTexts(local[a].rows) \subseteq
                  {r.text : r \in {q \in source_sentences' :
                                      q.language = local[a].lang}}
       /\ \A lang \in SUPPORTED_LANG_CODES :
            StoredTexts(lang) \subseteq
                {r.text : r \in {q \in source_sentences' : q.language = lang}}
       /\ \A a \in Admins :
            (/\ ImportReturns(a)
             /\ FileTexts(local[a].rows) \subseteq StoredTexts(local[a].lang))
            => /\ resp' = Reply(a, [kind |-> "imported", added_count |-> 0])
               /\ source_sentences' = source_sentences]_vars

\* C16 witness: an import has just returned 0 for a group that holds items,
\* one of them claimed or completed since it was imported.
C16_Witness ==
    /\ resp.to = "admin1"
    /\ resp.body.kind = "imported"
    /\ resp.body.added_count = 0
    /\ \E r \in RowsOf("mizo") : r.status # "unassigned"

\* C17: in every group the ids of the n items are the decimal numerals of
\* 1..n: imports number new items on from the largest id, leaving no gap and
\* reusing no id, also when rows of a file are skipped.
C17_IdsAreOneToN ==
    \A lang \in SUPPORTED_LANG_CODES :
        /\ {CastInt(r.sentence_id) : r \in RowsOf(lang)}
              = 1..Cardinality(RowsOf(lang))
        /\ \A r \in RowsOf(lang) : r.sentence_id = Str(CastInt(r.sentence_id))

\* C17 witness: an import has just added one item to a group that held item
\* 1, and numbered it 2.
C17_Witness ==
    /\ resp.body.kind = "imported"
    /\ resp.body.added_count = 1
    /\ RowAt("mizo", Str(1)) # {}
    /\ RowAt("mizo", Str(2)) # {}

\* C18: imports into one group that overlap in time behave as if one ran
\* after the other: no text is stored twice, and no import fails on an id
\* that the other import took after both read the same maximum.
C18_ImportsSerialize ==
    /\ \A lang \in SUPPORTED_LANG_CODES :
          Cardinality(StoredTexts(lang)) = Cardinality(RowsOf(lang))
    /\ ~(resp.body.kind = "error" /\ resp.body.error = "IntegrityError")

\* The rows a step adds: those of the next state whose key no row has now.
NewRows ==
    {q \in source_sentences' :
        \A r \in source_sentences :
            r.language # q.language \/ r.sentence_id # q.sentence_id}

\* C19: the batch of an import appears all at once: a step that adds rows is
\* the insert of one import and adds every row of its batch, and no row is
\* added between the reads of a ClaimNext and its write, so a ClaimNext sees
\* none of the batch or all of it.
C19_BatchIsAtomic ==
    [][/\ NewRows # {} =>
            \E a \in Admins :
                /\ ImportReturns(a)
                /\ NewRows = Range(NewSentences(local[a].lang, local[a].rows,
                                                local[a].existing_texts,
                                                local[a].current_id))
       /\ (\E w \in Workers : pc[w] = "pop_write" /\ pc'[w] = "pop_write")
            => NewRows = {}]_vars

\* C19 witness: w1's ClaimNext has done its reads and not yet written, while
\* an import stands before the insert of a batch of two rows.
C19_Witness ==
    /\ pc["w1"] = "pop_write"
    /\ pc["admin1"] = "import_insert"
    /\ Len(NewSentences(local["admin1"].lang, local["admin1"].rows,
                        local["admin1"].existing_texts,
                        local["admin1"].current_id)) = 2

\* The file is empty, has no header row, or has none of the columns text,
\* sentence and source.
Unusable(file) ==
    \/ file.empty
    \/ file.header = <<>>
    \/ Range(file.header) \cap {"text", "sentence", "source"} = {}

\* C20: an upload of a file that is empty, has no header row or has none of
\* the recognized columns is answered with an error, starts no import and
\* leaves the items as they are.
C20_UnusableFileRejected ==
    [][\A a \in Admins, language \in SUPPORTED_LANG_CODES, file \in Uploads :
          (Unusable(file) /\ admin_upload_source_post(a, language, file))
          => /\ resp'.to = a
             /\ resp'.body.kind = "error"
             /\ resp'.body.error # ""
             /\ pc'[a] = "idle"
             /\ source_sentences' = source_sentences]_vars

\* C20 witness: an upload for a group that holds items has just been answered
\* with the error for a file without a recognized column.
C20_Witness ==
    /\ resp.to = "admin1"
    /\ resp.body.kind = "error"
    /\ resp.body.error
          = "CSV must contain one of the following columns: text, sentence, source"
    /\ RowsOf("mizo") # {}

\* The step in which admin a's dashboard runs get_language_stats and answers.
DashboardReturns(a) == pc[a] = "dashboard_languages" /\ pc'[a] = "idle"

\* The items of group lang with the given status.
WithStatus(lang, status) == {r \in RowsOf(lang) : r.status = status}

\* C21: GroupProgress of a group gives total = the number of its items,
\* completed = the number of its completed items and remaining = total -
\* completed, which is the number of unassigned items plus the number of
\* assigned ones; count_remaining_sentences gives the same remaining.
C21_ProgressAccounting ==
    [][\A a \in Admins :
          DashboardReturns(a) =>
            /\ DOMAIN resp'.body.language_stats
                  = {lang \in SUPPORTED_LANG_CODES : RowsOf(lang) # {}}
            /\ \A lang \in DOMAIN resp'.body.language_stats :
                  LET g == resp'.body.language_stats[lang]
                  IN  /\ g.total = Cardinality(RowsOf(lang))
                      /\ g.completed = Cardinality(WithStatus(lang, "completed"))
                      /\ g.remaining = g.total - g.completed
                      /\ g.remaining =
                            Cardinality(WithStatus(lang, "unassigned"))
                              + Cardinality(WithStatus(lang, "assigned"))
                      /\ count_remaining_sentences(lang) = g.remaining]_vars

\* C21 witness: the dashboard has just reported total 10, completed 3,
\* remaining 7 for a group in which two items are assigned.
C21_Witness ==
    /\ resp.body.kind = "dashboard"
    /\ ClaimLanguage \in DOMAIN resp.body.language_stats
    /\ resp.body.language_stats[ClaimLanguage]
          = [total |-> 10, completed |-> 3, remaining |-> 7]
    /\ Cardinality(WithStatus(ClaimLanguage, "assigned")) = 2
    /\ pc = [p \in Procs |-> "idle"]

\* C22: a ClaimNext of a worker that holds no item, in a group without an
\* unassigned item, answers that there is no item, which is not an error,
\* and changes neither the items nor the ledger.
C22_NoItemAvailable ==
    [][\A w \in Workers :
          (/\ ClaimReturns(w)
           /\ OpenItems(local[w].lang, w) = {}
           /\ Unassigned(local[w].lang) = {})
          => /\ resp' = Reply(w, [kind |-> "no_more"])
             /\ source_sentences' = source_sentences
             /\ translations' = translations]_vars

\* C22 witness: w1 has just been told there is no item, in a group whose
\* items are all completed but one, which w2 holds.
C22_Witness ==
    /\ resp = Reply("w1", [kind |-> "no_more"])
    /\ pc = [p \in Procs |-> "idle"]
    /\ Cardinality(OpenItems(ClaimLanguage, "w2")) = 1
    /\ Cardinality(WithStatus(ClaimLanguage, "completed")) = MaxOrderItems - 1

\* The step is one of a request of caller p.
Acts(p) ==
    \/ pc'[p] # pc[p]
    \/ pc' = pc /\ resp'.to = p

\* The group the request of caller p is for: the language of the annotator's
\* account, the language field of the admin's upload.
GroupOf(p) == IF p \in Workers THEN UserLanguage(p) ELSE local[p].lang

\* C23: groups are independent: a step that changes an item of a group is a
\* step of a ClaimNext, Release, Complete or Import invoked for that group,
\* and the item that ClaimNext returns is an item of the caller's group.
C23_GroupsIndependent ==
    [][/\ \A lang \in SUPPORTED_LANG_CODES :
            {r \in source_sentences' : r.language = lang} # RowsOf(lang)
            => \E p \in Procs : Acts(p) /\ GroupOf(p) = lang
       /\ \A w \in Workers :
            (ClaimReturns(w) /\ resp'.body.kind = "translate")
            => /\ resp'.body.sentence.language = UserLanguage(w)
               /\ resp'.body.sentence \in source_sentences']_vars

\* C23 witness: both groups hold items, the annotator of khasi holds item 1
\* of khasi, and the annotator of mizo has just released an item of mizo.
C23_Witness ==
    /\ resp = Reply("w1", [kind |-> "redirect_dashboard"])
    /\ \E r \in OpenItems("khasi", "w3") : r.sentence_id = Str(1)
    /\ \E r \in RowAt("mizo", Str(1)) : r.status = "unassigned"
    /\ translations = <<>>

\* The ledger entries of group lang.
LedgerOf(lang) == {i \in 1..Len(translations) : translations[i].language = lang}

\* C24: in every state a stats query can read, each ledger entry is for an
\* item that is completed, and no group has more ledger entries than
\* completed items.
C24_StatsSnapshot ==
    \A lang \in SUPPORTED_LANG_CODES :
        /\ \A i \in LedgerOf(lang) :
              \A r \in RowAt(lang, translations[i].sentence_id) :
                  r.status = "completed"
        /\ Cardinality(LedgerOf(lang))
              <= Cardinality(WithStatus(lang, "completed"))

C26_LedgerAppendOnly ==
    [][\/ translations' = translations
       \/ /\ \E w \in Workers : CompleteAccepted(w)
          /\ Len(translations') = Len(translations) + 1
          /\ SubSeq(translations', 1, Len(translations)) = translations]_vars

\* C26 witness: the ledger holds two entries, appended by the Completes of two
\* workers.
C26_Witness ==
    /\ Len(translations) = 2
    /\ translations[1].username # translations[2].username

\* The step is the UPDATE of a Complete for item (lang, sid).
CompleteMarks(lang, sid) ==
    \E p \in Workers :
        /\ pc[p] = "submit_mark" /\ pc'[p] = "idle"
        /\ local[p].lang = lang /\ local[p].sentence_id = sid

\* C27: an assigned item stays assigned to its worker until a Release or a
\* Complete is issued for it: a step that changes the item is the Release of
\* that item or the UPDATE of a Complete of it, so no ClaimNext and no
\* Import changes it.
C27_AssignmentIsKept ==
    [][\A r \in source_sentences :
          (r.status = "assigned" /\ r \notin source_sentences')
          => \/ \E p \in Workers :
                  UserLanguage(p) = r.language /\ Release(p, r.sentence_id)
             \/ CompleteMarks(r.language, r.sentence_id)]_vars

\* C27 witness: w1 holds item 1, and the ClaimNext of w2 has just given w2
\* item 2.
C27_Witness ==
    /\ \E r \in OpenItems("mizo", "w1") : r.sentence_id = Str(1)
    /\ resp.to = "w2"
    /\ resp.body.kind = "translate"
    /\ resp.body.sentence.sentence_id = Str(2)
    /\ resp.body.sentence \in OpenItems("mizo", "w2")

\* C28: the item a worker was given stays that worker's until the worker
\* completes or releases it: a Release by another worker of an item that is
\* assigned leaves the item as it is.
C28_ReleaseOnlyByHolder ==
    [][\A p \in Workers : \A r \in RowsOf(UserLanguage(p)) :
          (/\ r.status = "assigned"
           /\ r.assigned_to # p
           /\ Release(p, r.sentence_id))
          => r \in source_sentences']_vars

\* Every item of the group is completed at some time.
AllEventuallyCompleted ==
    \A i \in 1..MaxItems :
        [](RowAt(ClaimLanguage, Str(i)) # {}
             => <>(\E r \in RowAt(ClaimLanguage, Str(i)) : r.status = "completed"))

\* C29 as stated: when every annotator that holds an item completes or
\* releases it in the end and the completer keeps calling ClaimNext and
\* completes what it is given, every item is completed in the end.
C29_ProgressWeak == AllEventuallyCompleted

\* The completer's ClaimNext finds an item for it.
CompleterFinds ==
    /\ annotator_next(Completer)
    /\ local'[Completer].sel.found

\* C29 amended: when moreover the completer's ClaimNext is strongly fair,
\* being given an item if again and again there is one to give it, every
\* item is completed in the end.
C29_ProgressStrong == SF_vars(CompleterFinds) => AllEventuallyCompleted

\* C29 witness: both items of the group are completed, one by each
\* annotator.
C29_Witness ==
    /\ Cardinality(WithStatus(ClaimLanguage, "completed")) = 2
    /\ Cardinality(RowsOf(ClaimLanguage)) = 2
    /\ \E i, j \in 1..Len(translations) :
          translations[i].username = "w1" /\ translations[j].username = "w2"

====
